---- MODULE Spec2Model ----
(***************************************************************************)
(* PetzXmasLights (src/src/main.cpp): an Arduino sketch that rotates a set *)
(* of light effects over a WS2812B strip and exposes five run parameters   *)
(* as BLE characteristics, saved to flash when the central disconnects.    *)
(*                                                                         *)
(* One step of the model is one handler of the sketch: setup(), the body   *)
(* of loop() up to BLE.poll(), and the events BLE.poll() delivers (a       *)
(* central connecting, a characteristic write, the disconnect handler).    *)
(***************************************************************************)
EXTENDS Integers, Sequences, FiniteSets, TLC

\* ------------------------------------------------------------ constants
CANDY_STRIP_WIDTH == 5
TRAIN_CAR_LENGTH == 5
NUMBER_OF_LIGHTS == 150
SECONDS_BETWEEN_EFFECTS == 5
CONFIG_FILE_VERSION == 2
maxEffects == 6
cometSize == 10
fadeAmt == 64
nbrOfColors == 5
SetupDelayMs == 3000
EffectPeriodMs == 500
TwinkleDelayMs == 200
MsPerSecond == 1000
FastTickMs == 50

\* ------------------------------------------------------------ bounds
\* millis() never passes MaxMillis in the model
MaxMillis == 5000
\* centrals that connect during one run
MaxSessions == 1
\* pixel counts 1..MaxLights (and NUMBER_OF_LIGHTS) in the single-effect specifications
MaxLights == 12
\* stripe widths and train lengths 1..MaxWidth in the single-effect specifications
MaxWidth == 4

\* ------------------------------------------------------------ integers
\* Every int and unsigned int of the sketch is written as the signed value of
\* its 32 bits, so storing an unsigned int in an int (and back) keeps the
\* value, and an unsigned comparison orders a negative value above every
\* non-negative one.
ULess(a, b) == IF (a < 0) = (b < 0) THEN a < b ELSE b < 0
UGreaterEq(a, b) == ~ULess(a, b)

\* ------------------------------------------------------------ colours
\* CRGB as <<r, g, b>>
white == <<255, 255, 255>>
black == <<0, 0, 0>>
blue == <<0, 0, 139>>
red == <<139, 0, 0>>
green == <<0, 100, 0>>
\* CRGB::setHue(HUE_RED): hsv2rgb_rainbow(CHSV(0, 255, 255))
hueRed == <<255, 0, 0>>
twinkleColors == << <<255, 0, 0>>, <<0, 0, 255>>, <<128, 0, 128>>, <<0, 128, 0>>, <<255, 165, 0>> >>

Pixels == 0 .. (NUMBER_OF_LIGHTS - 1)
AllBlack == [p \in Pixels |-> black]

\* CRGB::fadeToBlackBy(fadeAmt) is nscale8(255 - fadeAmt): c * (scale + 1) >> 8
scale8(c, scale) == (c * (scale + 1)) \div 256
fadeToBlackBy(c, amt) == <<scale8(c[1], 255 - amt), scale8(c[2], 255 - amt), scale8(c[3], 255 - amt)>>

\* Arduino random(howbig): 0 when howbig is 0, else the generator's next value
\* modulo howbig.  The generator's k-th value after a given seed is an input.
RandSeeds == {0, 7}
RandRaw(seed, k) == seed + (3 * k)
random(seed, k, howbig) == IF howbig = 0 THEN 0 ELSE RandRaw(seed, k) % howbig

VARIABLES
    pc,                       \* "boot" before setup(), "loop" after, "halt" in while(1)
    bleOk,                    \* BLE.begin() succeeded
    connected,                \* BLE.connected()
    sessions,                 \* centrals that have connected so far
    g_runLights, g_numberOfLights, g_candyStripWidth, g_trainCarLength,
    g_secondsBetweenEffects,  \* the five characteristics' values
    g_configData,             \* the in-memory configData_t
    myConfigData,             \* the record in flash
    flashWrites,              \* calls of myConfigData.write so far
    now,                      \* millis()
    lastEffectStartTime,
    everyN,                   \* EVERY_N_MILLISECONDS' mPrevTrigger, -1 before its construction
    currentEffect,
    transitions,              \* effect switches so far
    iPos, iDirection,         \* comet's statics
    passCount,                \* twinkleStar's static
    trainOffset, candyOffset, rwbOffset,
    leds,                     \* the CRGBArray<NUMBER_OF_LIGHTS>
    ran,                      \* what the last pass of loop() did
    mutated,                  \* the last pass of loop() changed leds
    oobWrite                  \* a write has gone past the end of leds

attrs == <<g_runLights, g_numberOfLights, g_candyStripWidth, g_trainCarLength, g_secondsBetweenEffects>>
config == <<g_configData, myConfigData, flashWrites>>
sched == <<lastEffectStartTime, everyN, currentEffect, transitions, ran, mutated>>
fx == <<iPos, iDirection, passCount, trainOffset, candyOffset, rwbOffset, leds, oobWrite>>
vars == <<pc, bleOk, connected, sessions, attrs, config, now, sched, fx>>

ConfigRecord(v, r, n, c, t, s) ==
    [version |-> v, run |-> r, nbrOfLeds |-> n, candyStripWidth |-> c,
     trainCarLength |-> t, secondsBetweenEffects |-> s]

\* flash never written (FlashStorage's block is zero-filled), a record of an
\* older layout, and two records of the current layout
StoredRecords ==
    { ConfigRecord(0, FALSE, 0, 0, 0, 0),
      ConfigRecord(1, TRUE, 20, 4, 4, 1),
      ConfigRecord(CONFIG_FILE_VERSION, TRUE, 20, 4, 4, 1),
      ConfigRecord(CONFIG_FILE_VERSION, TRUE, 170, 5, 5, 5) }

\* values a central writes
RunValues == BOOLEAN
LightValues == {160}
StripValues == {2}
TrainValues == {3}
SecondsValues == {0}
TickDeltas == {250, 500}

\* ------------------------------------------------------------ effects
\* The statics of the effect functions and the pixel buffer, as one record an
\* effect function takes and returns.
FxState ==
    [leds |-> leds, oob |-> oobWrite, iPos |-> iPos, iDirection |-> iDirection,
     passCount |-> passCount, trainOffset |-> trainOffset,
     candyOffset |-> candyOffset, rwbOffset |-> rwbOffset]

Max(S) == CHOOSE x \in S : \A y \in S : y <= x

\* comet: iPos == (nbrOfLEDS - cometSize) || iPos == 0
cometTurnsMutant(pos, nbrOfLEDS) == pos = nbrOfLEDS - cometSize - 1 \/ pos = 0
cometTurns(pos, nbrOfLEDS) == pos = nbrOfLEDS - cometSize \/ pos = 0

comet(st, nbrOfLEDS) ==
    LET pos == st.iPos + st.iDirection
        dir == IF cometTurns(pos, nbrOfLEDS) THEN -st.iDirection ELSE st.iDirection
        \* for (i < cometSize) leds[iPos + 1].setHue(HUE_RED)
        lit(p) == IF p = pos + 1 THEN hueRed ELSE st.leds[p]
        \* for (j < nbrOfLEDS) leds[j] = leds[j].fadeToBlackBy(fadeAmt)
        faded == [p \in Pixels |-> IF p < nbrOfLEDS THEN fadeToBlackBy(lit(p), fadeAmt) ELSE lit(p)]
    IN  [st EXCEPT !.iPos = pos, !.iDirection = dir, !.leds = faded,
                   !.oob = st.oob \/ (pos + 1) \notin Pixels \/ nbrOfLEDS > NUMBER_OF_LIGHTS]

twinkleStar(st, nbrOfLEDS, seed) ==
    LET count == st.passCount + 1
        clear == count = nbrOfLEDS \div 4
        base == IF clear THEN AllBlack ELSE st.leds
        colour == twinkleColors[random(seed, 0, nbrOfColors) + 1]
        pixel == random(seed, 1, nbrOfLEDS)
    IN  [st EXCEPT !.passCount = IF clear THEN 0 ELSE count,
                   !.leds = [p \in Pixels |-> IF p = pixel THEN colour ELSE base[p]],
                   !.oob = st.oob \/ pixel \notin Pixels]

\* train: (j + offset) < nbrLEDS, an unsigned comparison
trainClipMutant(index, nbrLEDS) == ULess(index, nbrLEDS) \/ index = nbrLEDS
trainClip(index, nbrLEDS) == ULess(index, nbrLEDS)

train(st, trainLength, nbrLEDS) ==
    LET offset == st.trainOffset
        cars == 0 .. (trainLength - 1)
        reds == {j + offset : j \in {j \in cars : trainClip(j + offset, nbrLEDS)}}
        greens == {j + trainLength + offset :
                     j \in {j \in cars : trainClip(j + trainLength + offset, nbrLEDS)}}
    IN  [st EXCEPT !.leds = [p \in Pixels |-> IF p \in greens THEN green
                                              ELSE IF p \in reds THEN red ELSE black],
                   !.trainOffset = (offset + 1) % nbrLEDS,
                   !.oob = st.oob \/ \E x \in reds \cup greens : x \notin Pixels]

\* candyCane: the index a stripe pixel is drawn at
candyIndexMutant(j, offset, nbrLEDS) == j % nbrLEDS
candyIndex(j, offset, nbrLEDS) == (j + offset) % nbrLEDS

candyCane(st, stripWidth, nbrLEDS) ==
    LET offset == st.candyOffset
        strips == 0 .. ((nbrLEDS \div stripWidth) - 1)
        drawn == UNION {{candyIndex(j, offset, nbrLEDS) :
                           j \in (i * stripWidth * 2) .. ((i * stripWidth * 2) + stripWidth - 1)} :
                        i \in strips}
    IN  [st EXCEPT !.leds = [p \in Pixels |-> IF p \in drawn THEN red
                                              ELSE IF p < nbrLEDS THEN white ELSE st.leds[p]],
                   !.candyOffset = (offset + 1) % nbrLEDS,
                   !.oob = st.oob \/ nbrLEDS > NUMBER_OF_LIGHTS]

\* redWhiteBlue: switch ((i % (3 * stripWidth)) / stripWidth)
band(i, stripWidth) == (i % (3 * stripWidth)) \div stripWidth
bandColour(b) == CASE b = 0 -> blue [] b = 1 -> white [] b = 2 -> red

redWhiteBlue(st, stripWidth, nbrLEDS) ==
    LET offset == st.rwbOffset
        writers(p) == {i \in 0 .. (nbrLEDS - 1) : (i + offset) % nbrLEDS = p}
    IN  [st EXCEPT !.leds = [p \in Pixels |-> IF writers(p) = {} THEN black
                                              ELSE bandColour(band(Max(writers(p)), stripWidth))],
                   !.rwbOffset = (offset + 1) % nbrLEDS,
                   !.oob = st.oob \/ nbrLEDS > NUMBER_OF_LIGHTS]

randomGreenAndRed(st, nbrLEDS, seed) ==
    [st EXCEPT !.leds = [p \in Pixels |-> IF p < nbrLEDS
                                          THEN (IF random(seed, p, 10) > 5 THEN red ELSE green)
                                          ELSE st.leds[p]],
               !.oob = st.oob \/ nbrLEDS > NUMBER_OF_LIGHTS]

\* ------------------------------------------------------------ startup
Defaults ==
    ConfigRecord(CONFIG_FILE_VERSION, TRUE, NUMBER_OF_LIGHTS, CANDY_STRIP_WIDTH,
                 TRAIN_CAR_LENGTH, SECONDS_BETWEEN_EFFECTS)

\* configureBLEService: g_configData.version != CONFIG_FILE_VERSION
versionMismatch(rec) == rec.version # CONFIG_FILE_VERSION

\* the configuration configureBLEService ends with, from the record it read
loadConfiguration(rec) == IF versionMismatch(rec) THEN Defaults ELSE rec

\* Globals after static construction: zeroed statics, each characteristic
\* holding the zero its constructor wrote, and whatever the flash holds.
Init ==
    /\ pc = "boot"
    /\ bleOk = FALSE
    /\ connected = FALSE
    /\ sessions = 0
    /\ g_runLights = FALSE
    /\ g_numberOfLights = 0
    /\ g_candyStripWidth = 0
    /\ g_trainCarLength = 0
    /\ g_secondsBetweenEffects = 0
    /\ g_configData = ConfigRecord(0, FALSE, 0, 0, 0, 0)
    /\ myConfigData \in StoredRecords
    /\ flashWrites = 0
    /\ now = 0
    /\ lastEffectStartTime = 0
    /\ everyN = -1
    /\ currentEffect = 0
    /\ transitions = 0
    /\ iPos = 0
    /\ iDirection = 1
    /\ passCount = 0
    /\ trainOffset = 0
    /\ candyOffset = 0
    /\ rwbOffset = 0
    /\ leds = AllBlack
    /\ ran = "none"
    /\ mutated = FALSE
    /\ oobWrite = FALSE

configureBLEService ==
    LET cfg == loadConfiguration(myConfigData)
    IN  /\ g_configData' = cfg
        /\ g_runLights' = cfg.run
        /\ g_numberOfLights' = cfg.nbrOfLeds
        /\ g_candyStripWidth' = cfg.candyStripWidth
        /\ g_trainCarLength' = cfg.trainCarLength
        /\ g_secondsBetweenEffects' = cfg.secondsBetweenEffects

\* setup(): displayOk is display.begin()'s result, bleBegin is BLE.begin()'s
Setup ==
    /\ pc = "boot"
    /\ \E displayOk \in BOOLEAN, bleBegin \in BOOLEAN :
         IF ~displayOk
         THEN /\ pc' = "halt"
              /\ now' = now + SetupDelayMs
              /\ UNCHANGED <<bleOk, connected, sessions, attrs, config, sched, fx>>
         ELSE /\ pc' = "loop"
              /\ bleOk' = bleBegin
              /\ IF bleBegin THEN configureBLEService ELSE UNCHANGED <<attrs, g_configData>>
              /\ now' = now + SetupDelayMs
              /\ lastEffectStartTime' = now + SetupDelayMs
              /\ UNCHANGED <<connected, sessions, myConfigData, flashWrites,
                             everyN, currentEffect, transitions, ran, mutated, fx>>

\* ------------------------------------------------------------ loop()
nextEffectMutant(k) == (k + 1) % (maxEffects - 1)
nextEffect(k) == (k + 1) % maxEffects

\* millis() - lastEffectStartTime >= g_configData.secondsBetweenEffects * 1000
effectDueMutant(t, last, seconds) == ULess(seconds * MsPerSecond, t - last)
effectDue(t, last, seconds) == UGreaterEq(t - last, seconds * MsPerSecond)

\* the switch on currentEffect
runCurrentEffect(st, seed) ==
    CASE currentEffect = 0 -> candyCane(st, g_candyStripWidth, g_numberOfLights)
      [] currentEffect = 1 -> randomGreenAndRed(st, g_numberOfLights, seed)
      [] currentEffect = 2 -> train(st, g_trainCarLength, g_numberOfLights)
      [] currentEffect = 3 -> redWhiteBlue(st, g_trainCarLength, g_numberOfLights)
      [] currentEffect = 4 -> twinkleStar(st, g_numberOfLights, seed)
      [] currentEffect = 5 -> comet(st, g_numberOfLights)
      [] OTHER -> st

\* BLE.connected(), the test loop() starts with
bleConnectedMutant == FALSE
bleConnected == connected

\* FastLED.clear(true)
clearLedsMutant(buf) == buf
clearLeds(buf) == AllBlack

\* One pass of loop() up to BLE.poll(): d is the time since the last pass
\* read millis(), seed stands for the values random() returns in this pass.
TickBy(deltas) ==
    /\ pc = "loop"
    /\ ~oobWrite
    /\ \E d \in deltas, seed \in RandSeeds :
        LET t0 == now + d
            \* EVERY_N_MILLISECONDS(500): the static timer is constructed on the first pass here
            prev == IF everyN = -1 THEN t0 ELSE everyN
            ready == UGreaterEq(t0 - prev, EffectPeriodMs)
            \* twinkleStar ends with delay(200)
            t1 == IF ready /\ currentEffect = 4 THEN t0 + TwinkleDelayMs ELSE t0
            due == effectDue(t1, lastEffectStartTime, g_configData.secondsBetweenEffects)
        IN  /\ t0 <= MaxMillis
            /\ IF bleConnected
               THEN /\ now' = t0
                    /\ ran' = "connected"
                    /\ mutated' = FALSE
                    /\ UNCHANGED <<lastEffectStartTime, everyN, currentEffect, transitions, fx>>
               ELSE IF g_runLights
               THEN \E st1 \in {comet(FxState, NUMBER_OF_LIGHTS)} :
                    \E st2 \in {IF ready THEN runCurrentEffect(st1, seed) ELSE st1} :
                    /\ now' = t1
                    /\ ran' = "effects"
                    /\ mutated' = (st2.leds # leds)
                    /\ everyN' = IF ready THEN t0 ELSE prev
                    /\ leds' = st2.leds
                    /\ oobWrite' = st2.oob
                    /\ iPos' = st2.iPos
                    /\ iDirection' = st2.iDirection
                    /\ passCount' = st2.passCount
                    /\ trainOffset' = st2.trainOffset
                    /\ candyOffset' = st2.candyOffset
                    /\ rwbOffset' = st2.rwbOffset
                    /\ currentEffect' = IF due THEN nextEffect(currentEffect) ELSE currentEffect
                    /\ transitions' = IF due THEN transitions + 1 ELSE transitions
                    /\ lastEffectStartTime' = IF due THEN t1 ELSE lastEffectStartTime
               ELSE \* FastLED.clear(true)
                    /\ now' = t0
                    /\ ran' = "blackout"
                    /\ leds' = clearLeds(leds)
                    /\ mutated' = (clearLeds(leds) # leds)
                    /\ UNCHANGED <<lastEffectStartTime, everyN, currentEffect, transitions,
                                   iPos, iDirection, passCount, trainOffset, candyOffset,
                                   rwbOffset, oobWrite>>
    /\ UNCHANGED <<pc, bleOk, connected, sessions, attrs, config>>

\* passes of loop() at the spacings the main specification follows
Tick == TickBy(TickDeltas)

\* passes of loop() as fast as it goes round: BLE.poll(50) waits 50 ms
FastTick == TickBy({FastTickMs})

\* ------------------------------------------------------------ BLE.poll()
\* a central connects (advertising started in setup only when BLE.begin() succeeded)
Connect ==
    /\ pc = "loop" /\ ~oobWrite /\ bleOk /\ ~connected
    /\ sessions < MaxSessions
    /\ connected' = TRUE
    /\ sessions' = sessions + 1
    /\ UNCHANGED <<pc, bleOk, attrs, config, now, sched, fx>>

WriteRunLights ==
    /\ pc = "loop" /\ ~oobWrite /\ connected
    /\ \E v \in RunValues : g_runLights' = v
    /\ UNCHANGED <<pc, bleOk, connected, sessions, g_numberOfLights, g_candyStripWidth,
                   g_trainCarLength, g_secondsBetweenEffects, config, now, sched, fx>>

WriteNumberOfLights ==
    /\ pc = "loop" /\ ~oobWrite /\ connected
    /\ \E v \in LightValues : g_numberOfLights' = v
    /\ UNCHANGED <<pc, bleOk, connected, sessions, g_runLights, g_candyStripWidth,
                   g_trainCarLength, g_secondsBetweenEffects, config, now, sched, fx>>

WriteCandyStripWidth ==
    /\ pc = "loop" /\ ~oobWrite /\ connected
    /\ \E v \in StripValues : g_candyStripWidth' = v
    /\ UNCHANGED <<pc, bleOk, connected, sessions, g_runLights, g_numberOfLights,
                   g_trainCarLength, g_secondsBetweenEffects, config, now, sched, fx>>

WriteTrainCarLength ==
    /\ pc = "loop" /\ ~oobWrite /\ connected
    /\ \E v \in TrainValues : g_trainCarLength' = v
    /\ UNCHANGED <<pc, bleOk, connected, sessions, g_runLights, g_numberOfLights,
                   g_candyStripWidth, g_secondsBetweenEffects, config, now, sched, fx>>

WriteSecondsBetweenEffects ==
    /\ pc = "loop" /\ ~oobWrite /\ connected
    /\ \E v \in SecondsValues : g_secondsBetweenEffects' = v
    /\ UNCHANGED <<pc, bleOk, connected, sessions, g_runLights, g_numberOfLights,
                   g_candyStripWidth, g_trainCarLength, config, now, sched, fx>>

\* updateConfiguration's test: has any characteristic left the in-memory record
configChangedMutant == TRUE
configChangedNoSeconds ==
    \/ g_runLights # g_configData.run
    \/ g_numberOfLights # g_configData.nbrOfLeds
    \/ g_candyStripWidth # g_configData.candyStripWidth
    \/ g_trainCarLength # g_configData.trainCarLength
configChanged ==
    \/ g_runLights # g_configData.run
    \/ g_numberOfLights # g_configData.nbrOfLeds
    \/ g_candyStripWidth # g_configData.candyStripWidth
    \/ g_trainCarLength # g_configData.trainCarLength
    \/ g_secondsBetweenEffects # g_configData.secondsBetweenEffects

\* the record updateConfiguration builds from the characteristics
snapshotMutant ==
    ConfigRecord(CONFIG_FILE_VERSION, g_runLights, g_numberOfLights,
                 g_candyStripWidth, g_trainCarLength, g_configData.secondsBetweenEffects)
snapshot ==
    ConfigRecord(CONFIG_FILE_VERSION, g_runLights, g_numberOfLights,
                 g_candyStripWidth, g_trainCarLength, g_secondsBetweenEffects)

\* the central disconnects: BLE.poll() calls the BLEDisconnected handler
Disconnect ==
    /\ pc = "loop" /\ ~oobWrite /\ connected
    /\ connected' = FALSE
    /\ IF configChanged
       THEN /\ g_configData' = snapshot
            /\ myConfigData' = snapshot
            /\ flashWrites' = flashWrites + 1
       ELSE UNCHANGED config
    /\ UNCHANGED <<pc, bleOk, sessions, attrs, now, sched, fx>>

Next ==
    \/ Setup
    \/ Tick
    \/ Connect
    \/ WriteRunLights
    \/ WriteNumberOfLights
    \/ WriteCandyStripWidth
    \/ WriteTrainCarLength
    \/ WriteSecondsBetweenEffects
    \/ Disconnect

Spec == Init /\ [][Next]_vars

\* ------------------------------------------------------------ single effects
\* One effect function called over and over with fixed arguments, from the
\* state setup() leaves: the specifications the effect-level properties are
\* checked under.
EffectLights == (1 .. MaxLights) \cup {NUMBER_OF_LIGHTS}
EffectWidths == (1 .. MaxWidth) \cup {CANDY_STRIP_WIDTH}
CometLights == ((cometSize + 1) .. (cometSize + MaxWidth)) \cup {NUMBER_OF_LIGHTS}

InitEffect(lights, strips, cars) ==
    /\ pc = "loop"
    /\ bleOk = TRUE
    /\ connected = FALSE
    /\ sessions = 0
    /\ g_runLights = TRUE
    /\ g_numberOfLights \in lights
    /\ g_candyStripWidth \in strips
    /\ g_trainCarLength \in cars
    /\ g_secondsBetweenEffects = SECONDS_BETWEEN_EFFECTS
    /\ g_configData = ConfigRecord(CONFIG_FILE_VERSION, TRUE, g_numberOfLights, g_candyStripWidth,
                                   g_trainCarLength, SECONDS_BETWEEN_EFFECTS)
    /\ myConfigData = g_configData
    /\ flashWrites = 0
    /\ now = SetupDelayMs
    /\ lastEffectStartTime = SetupDelayMs
    /\ everyN = -1
    /\ currentEffect = 0
    /\ transitions = 0
    /\ iPos = 0
    /\ iDirection = 1
    /\ passCount = 0
    /\ trainOffset = 0
    /\ candyOffset = 0
    /\ rwbOffset = 0
    /\ leds \in {AllBlack, [p \in Pixels |-> hueRed]}
    /\ ran = "none"
    /\ mutated = FALSE
    /\ oobWrite = FALSE

\* what an effect function leaves behind
Apply(st) ==
    /\ leds' = st.leds
    /\ oobWrite' = st.oob
    /\ iPos' = st.iPos
    /\ iDirection' = st.iDirection
    /\ passCount' = st.passCount
    /\ trainOffset' = st.trainOffset
    /\ candyOffset' = st.candyOffset
    /\ rwbOffset' = st.rwbOffset
    /\ UNCHANGED <<pc, bleOk, connected, sessions, attrs, config, now, sched>>

TrainActivation ==
    \E st \in {train(FxState, g_trainCarLength, g_numberOfLights)} : Apply(st)

CometActivation ==
    \E st \in {comet(FxState, g_numberOfLights)} : Apply(st)

CandyCaneActivation ==
    \E st \in {candyCane(FxState, g_candyStripWidth, g_numberOfLights)} : Apply(st)

SpecTrain ==
    InitEffect(EffectLights, {CANDY_STRIP_WIDTH}, 0 .. MaxWidth) /\ [][TrainActivation]_vars

SpecComet ==
    InitEffect(CometLights, {CANDY_STRIP_WIDTH}, {TRAIN_CAR_LENGTH}) /\ [][CometActivation]_vars

SpecCandyCane ==
    InitEffect(EffectLights, EffectWidths, {TRAIN_CAR_LENGTH}) /\ [][CandyCaneActivation]_vars

\* ------------------------------------------------------------ properties
\* a pass of loop() is the only step after setup() that moves millis()
LoopPass == pc = "loop" /\ now' # now
\* a pass of loop() that gets to the effects
RunningPass == LoopPass /\ ~connected /\ g_runLights
\* the handler of BLEDisconnected has run
Disconnected == connected /\ ~connected'

\* C1: the effect index is always in 0..maxEffects-1 and equals the number of
\* switches so far modulo maxEffects (so it is back at 0 after exactly
\* maxEffects switches, each effect selected once in between), and every
\* step that changes it takes k to (k + 1) mod maxEffects.
C1_RoundRobin ==
    /\ [](currentEffect \in 0 .. (maxEffects - 1) /\ currentEffect = transitions % maxEffects)
    /\ [][/\ currentEffect' # currentEffect =>
                /\ currentEffect' = (currentEffect + 1) % maxEffects
                /\ transitions' = transitions + 1
          /\ transitions' # transitions => currentEffect' # currentEffect]_vars

C1_Witness == transitions = maxEffects /\ currentEffect = 0

\* C2 as stated: on every pass of loop() (the wireless stack being up) the
\* effect switches exactly when secondsBetweenEffects seconds have passed
\* since the last switch, whatever the connection and the run flag are.
C2_Original ==
    [][(LoopPass /\ bleOk) =>
         ((transitions' # transitions) <=>
            (now' - lastEffectStartTime >= g_configData.secondsBetweenEffects * MsPerSecond))]_vars

\* C2 amended: on a pass of loop() with no central connected and the run flag
\* true, the effect switches if and only if at least
\* g_configData.secondsBetweenEffects seconds have passed since the last switch
\* (or setup), at most once, and the timer is set to the time of that pass;
\* no other step (a pass while connected or with the run flag false, a
\* connect, a write, a disconnect) switches the effect or moves the timer.
C2_TimeDriven ==
    [][/\ RunningPass =>
            IF now' - lastEffectStartTime >= g_configData.secondsBetweenEffects * MsPerSecond
            THEN /\ transitions' = transitions + 1
                 /\ currentEffect' # currentEffect
                 /\ lastEffectStartTime' = now'
            ELSE UNCHANGED <<transitions, currentEffect, lastEffectStartTime>>
       /\ (pc = "loop" /\ ~RunningPass) =>
            UNCHANGED <<transitions, currentEffect, lastEffectStartTime>>]_vars

C2_Witness ==
    /\ ran = "effects"
    /\ transitions = 1
    /\ lastEffectStartTime = now
    /\ g_configData.secondsBetweenEffects = 1

\* every characteristic differs from the in-memory record of the snapshot
AllFiveDiffer ==
    /\ g_runLights # g_configData.run
    /\ g_numberOfLights # g_configData.nbrOfLeds
    /\ g_candyStripWidth # g_configData.candyStripWidth
    /\ g_trainCarLength # g_configData.trainCarLength
    /\ g_secondsBetweenEffects # g_configData.secondsBetweenEffects

SomeDiffer ==
    \/ g_runLights # g_configData.run
    \/ g_numberOfLights # g_configData.nbrOfLeds
    \/ g_candyStripWidth # g_configData.candyStripWidth
    \/ g_trainCarLength # g_configData.trainCarLength
    \/ g_secondsBetweenEffects # g_configData.secondsBetweenEffects

\* C3: a disconnect with all five characteristics holding values that differ
\* from the snapshot writes the flash exactly once, and the record written
\* holds the five values and version CONFIG_FILE_VERSION.
C3_OneWriteOfNewValues ==
    [][(Disconnected /\ AllFiveDiffer) =>
         /\ flashWrites' = flashWrites + 1
         /\ myConfigData' = [version |-> CONFIG_FILE_VERSION,
                             run |-> g_runLights,
                             nbrOfLeds |-> g_numberOfLights,
                             candyStripWidth |-> g_candyStripWidth,
                             trainCarLength |-> g_trainCarLength,
                             secondsBetweenEffects |-> g_secondsBetweenEffects]]_vars

\* the first flash write, of a record no stored record or default shares a field with
C3_Witness ==
    /\ ~connected
    /\ flashWrites = 1
    /\ myConfigData = ConfigRecord(CONFIG_FILE_VERSION, FALSE, 160, 2, 3, 0)

\* C4: the flash changes only in the disconnect handler and only when some
\* characteristic differs from the in-memory record; a disconnect with all
\* five equal writes nothing and leaves the in-memory record as it was.
C4_WriteOnlyOnChange ==
    [][/\ (myConfigData' # myConfigData \/ flashWrites' # flashWrites) =>
            (Disconnected /\ SomeDiffer)
       /\ (Disconnected /\ ~SomeDiffer) =>
            UNCHANGED <<g_configData, myConfigData, flashWrites>>]_vars

\* a central has come and gone and nothing was written
C4_Witness == sessions = 1 /\ ~connected /\ flashWrites = 0 /\ ran = "connected"

\* C5 as stated: after setup(), before any central has connected, the
\* characteristics and the in-memory record hold the defaults when the stored
\* version is not CONFIG_FILE_VERSION, and the stored fields when it is.
C5_SeededAtStartup ==
    (pc = "loop" /\ sessions = 0) =>
        LET want == IF myConfigData.version # CONFIG_FILE_VERSION
                    THEN [version |-> CONFIG_FILE_VERSION, run |-> TRUE, nbrOfLeds |-> 150,
                          candyStripWidth |-> 5, trainCarLength |-> 5, secondsBetweenEffects |-> 5]
                    ELSE myConfigData
        IN  /\ g_configData = want
            /\ g_runLights = want.run
            /\ g_numberOfLights = want.nbrOfLeds
            /\ g_candyStripWidth = want.candyStripWidth
            /\ g_trainCarLength = want.trainCarLength
            /\ g_secondsBetweenEffects = want.secondsBetweenEffects

\* C6 as stated: whatever pixel count is stored or written, no effect the
\* scheduler calls writes the buffer at an index >= NUMBER_OF_LIGHTS.
C6_WithinCapacity == ~oobWrite

\* C7 as stated: when BLE.begin() has failed, every pass of loop() runs the
\* effects.
C7_DegradedModeRuns == (pc = "loop" /\ ~bleOk /\ ran # "none") => ran = "effects"

\* C8: after a train activation from offset o with car length L and pixel
\* count n, pixel p is red exactly when o <= p < o + L and p < n, green
\* exactly when o + L <= p < o + 2L and p < n, and black otherwise: no car
\* pixel lands at an index >= n (none wraps round to the start), nothing is
\* written past the buffer, and the offset stays in [0, n).
C8_TrainClipped ==
    /\ [](trainOffset >= 0 /\ trainOffset < g_numberOfLights /\ ~oobWrite)
    /\ [][\A p \in Pixels :
            leds'[p] = IF p >= trainOffset /\ p < trainOffset + g_trainCarLength
                          /\ p < g_numberOfLights
                       THEN red
                       ELSE IF p >= trainOffset + g_trainCarLength
                               /\ p < trainOffset + (2 * g_trainCarLength)
                               /\ p < g_numberOfLights
                       THEN green
                       ELSE black]_vars

\* the train's last activation was at offset n - 1: one red pixel, the rest of
\* both cars past the end and not drawn
C8_Witness ==
    /\ g_numberOfLights = MaxLights
    /\ g_trainCarLength = MaxWidth
    /\ trainOffset = 0
    /\ leds[MaxLights - 1] = red
    /\ \A p \in Pixels : p # MaxLights - 1 => leds[p] = black

\* C9: with a fixed pixel count n >= cometSize + 1, the comet's position stays
\* in [0, n - cometSize], and an activation reverses the direction if and only
\* if the position it steps to is 0 or n - cometSize.
C9_CometTurnsAtEnds ==
    /\ [](iPos >= 0 /\ iPos <= g_numberOfLights - cometSize /\ iDirection \in {1, -1})
    /\ [][/\ iPos' = iPos + iDirection
          /\ (iDirection' = -iDirection) <=> (iPos' = 0 \/ iPos' = g_numberOfLights - cometSize)
          /\ iDirection' \in {iDirection, -iDirection}]_vars

\* the comet has reached the far end and turned back
C9_Witness ==
    /\ g_numberOfLights = NUMBER_OF_LIGHTS
    /\ iPos = NUMBER_OF_LIGHTS - cometSize
    /\ iDirection = -1

\* the pixels that start a red stripe group, going round the first n pixels
StripeStarts(buf, n) ==
    {p \in 0 .. (n - 1) : buf[p] = red /\ buf[(p + n - 1) % n] # red}

\* C10: when n mod 2W = 0, a candy cane activation from offset o leaves pixel
\* p < n red exactly when ((p - o) mod n) mod 2W < W and white otherwise (red
\* groups of W pixels, W white pixels between them, also across the wrap from
\* n - 1 to 0), which makes n / 2W groups; the offset moves on by one modulo
\* n, so the pattern moves one pixel per activation and repeats after n.
C10_CandyCaneStripes ==
    [][(g_numberOfLights % (2 * g_candyStripWidth) = 0) =>
         /\ \A p \in 0 .. (g_numberOfLights - 1) :
              leds'[p] = IF ((p - candyOffset) % g_numberOfLights) % (2 * g_candyStripWidth)
                              < g_candyStripWidth
                         THEN red ELSE white
         /\ \A p \in Pixels : p >= g_numberOfLights => leds'[p] = leds[p]
         /\ Cardinality(StripeStarts(leds', g_numberOfLights))
              = g_numberOfLights \div (2 * g_candyStripWidth)
         /\ candyOffset' = (candyOffset + 1) % g_numberOfLights]_vars

\* 150 pixels, width 5, the activation that completes a cycle of offsets: 15 groups
C10_Witness ==
    /\ g_numberOfLights = NUMBER_OF_LIGHTS
    /\ g_candyStripWidth = CANDY_STRIP_WIDTH
    /\ candyOffset = 0
    /\ leds[NUMBER_OF_LIGHTS - 1] = red
    /\ leds[CANDY_STRIP_WIDTH - 1] = white
    /\ Cardinality(StripeStarts(leds, NUMBER_OF_LIGHTS)) = 15

\* the effect statics and the effect selector
Statics == <<iPos, iDirection, passCount, trainOffset, candyOffset, rwbOffset>>
Selector == <<currentEffect, lastEffectStartTime, transitions>>
\* a pass of loop() in which EVERY_N_MILLISECONDS let the switch run
EffectFired == RunningPass /\ everyN # -1 /\ everyN' # everyN

\* C11 as stated: every pass of loop() with the run flag false clears the
\* whole buffer, calls no effect and leaves the effect statics and the
\* selector as they were.
C11_Original ==
    [][(LoopPass /\ ~g_runLights) =>
         /\ \A p \in Pixels : leds'[p] = <<0, 0, 0>>
         /\ ran' = "blackout"
         /\ UNCHANGED <<Statics, Selector>>]_vars

\* C11 amended: every pass of loop() with the run flag false and no central
\* connected clears the whole buffer, calls no effect and leaves the effect
\* statics and the selector as they were.
C11_Blackout ==
    [][(LoopPass /\ ~g_runLights /\ ~connected) =>
         /\ \A p \in Pixels : leds'[p] = <<0, 0, 0>>
         /\ ran' = "blackout"
         /\ UNCHANGED <<Statics, Selector>>]_vars

\* effects had lit the strip and a pass with the run flag false has cleared it
C11_Witness ==
    /\ ran = "blackout"
    /\ mutated
    /\ ~g_runLights
    /\ iPos > 0
    /\ leds = [p \in Pixels |-> <<0, 0, 0>>]

\* C12 as stated: on a pass of loop() that runs effects, the statics of an
\* effect change only if that effect is the selected one and was called.
C12_OnlySelectedEffect ==
    [][RunningPass =>
         /\ candyOffset' # candyOffset => (EffectFired /\ currentEffect = 0)
         /\ trainOffset' # trainOffset => (EffectFired /\ currentEffect = 2)
         /\ rwbOffset' # rwbOffset => (EffectFired /\ currentEffect = 3)
         /\ passCount' # passCount => (EffectFired /\ currentEffect = 4)
         /\ (iPos' # iPos \/ iDirection' # iDirection) => (EffectFired /\ currentEffect = 5)
         /\ leds' # leds => EffectFired]_vars

\* ------------------------------------------------ loop() at its own pace
\* setup(), then passes of loop() that follow each other as fast as
\* BLE.poll(50) lets them, with no central in range
NextFast == Setup \/ FastTick
SpecFastLoop == Init /\ [][NextFast]_vars

\* C13 as stated: two passes of loop() closer together than the shortest
\* cadence (100 ms) never both change the pixel buffer.
C13_RateLimited ==
    [][(pc = "loop" /\ mutated /\ now' - now < 100) => ~mutated']_vars

\* C14 as stated: when the scheduler runs red/white/blue, logical index i
\* gets the colour of band (i mod 3w) / w, w the live stripe width, at
\* position (i + offset) mod pixelCount.
C14_StripeWidthBands ==
    [][(EffectFired /\ currentEffect = 3
          /\ g_numberOfLights \in 1 .. NUMBER_OF_LIGHTS /\ g_candyStripWidth > 0) =>
         \A i \in 0 .. (g_numberOfLights - 1) :
            leds'[(i + rwbOffset) % g_numberOfLights]
               = bandColour(band(i, g_candyStripWidth))]_vars

\* C15 as stated: after a comet activation the cometSize pixels at
\* position .. position + cometSize - 1 carry the once-faded comet colour.
C15_CometRunLit ==
    [][\A i \in 0 .. (cometSize - 1) :
          leds'[iPos' + i] = fadeToBlackBy(hueRed, fadeAmt)]_vars

\* ------------------------------------------------------ twinkle on its own
\* the activations of twinkleStar a run of the model follows
MaxPasses == 40

\* pixel counts below 4, of a few groups of 4, and the default
TwinkleLights == {MaxWidth - 1, MaxLights, NUMBER_OF_LIGHTS}

TwinkleActivation ==
    /\ passCount < MaxPasses
    /\ ~oobWrite
    /\ \E seed \in RandSeeds :
         \E st \in {twinkleStar(FxState, g_numberOfLights, seed)} : Apply(st)

\* between two activations a central connects, writes a lower pixel count and
\* disconnects: updateConfiguration stores it, the statics stay as they are
LowerNumberOfLights ==
    /\ ~oobWrite
    /\ \E v \in {n \in TwinkleLights : n < g_numberOfLights} :
         /\ g_numberOfLights' = v
         /\ g_configData' = ConfigRecord(CONFIG_FILE_VERSION, g_runLights, v, g_candyStripWidth,
                                         g_trainCarLength, g_secondsBetweenEffects)
         /\ myConfigData' = g_configData'
         /\ flashWrites' = flashWrites + 1
    /\ UNCHANGED <<pc, bleOk, connected, sessions, g_runLights, g_candyStripWidth,
                   g_trainCarLength, g_secondsBetweenEffects, now, sched, fx>>

NextTwinkle == TwinkleActivation \/ LowerNumberOfLights
SpecTwinkle ==
    InitEffect(TwinkleLights, {CANDY_STRIP_WIDTH}, {TRAIN_CAR_LENGTH}) /\ [][NextTwinkle]_vars

\* C16 as stated, for pixel counts of 4 and more: after every twinkle
\* activation the pass counter is below N = pixelCount / 4, also when the
\* pixel count was lowered between activations.
C16_CounterBelowN ==
    [][(g_numberOfLights' = g_numberOfLights /\ g_numberOfLights >= 4) =>
         passCount' < g_numberOfLights \div 4]_vars

\* ------------------------------------------- the two call sites of comet
\* The passes of loop() up to and through one turn of effect 5, looking at
\* comet alone.  A running pass before the turn, on which the switch is not
\* ready: comet(NUMBER_OF_LIGHTS) alone, then the check of the elapsed time.
CometEveryPass ==
    /\ ~oobWrite
    /\ currentEffect # maxEffects - 1
    /\ \E due \in BOOLEAN :
         \E st \in {comet(FxState, NUMBER_OF_LIGHTS)} :
            /\ leds' = st.leds
            /\ oobWrite' = st.oob
            /\ iPos' = st.iPos
            /\ iDirection' = st.iDirection
            /\ currentEffect' = IF due THEN nextEffect(currentEffect) ELSE currentEffect
            /\ transitions' = IF due THEN transitions + 1 ELSE transitions
    /\ UNCHANGED <<pc, bleOk, connected, sessions, attrs, config, now, lastEffectStartTime,
                   everyN, ran, mutated, passCount, trainOffset, candyOffset, rwbOffset>>

\* a running pass of effect 5's turn on which the switch is ready:
\* comet(NUMBER_OF_LIGHTS), then comet(g_numberOfLights.value())
CometSelectedPass ==
    /\ ~oobWrite
    /\ currentEffect = maxEffects - 1
    /\ \E st1 \in {comet(FxState, NUMBER_OF_LIGHTS)} :
         \E st2 \in {comet(st1, g_numberOfLights)} : Apply(st2)

NextCometSites == CometEveryPass \/ CometSelectedPass
SpecCometSites ==
    InitEffect(CometLights, {CANDY_STRIP_WIDTH}, {TRAIN_CAR_LENGTH}) /\ [][NextCometSites]_vars

\* C17 as stated: with a pixel count in cometSize + 1 .. NUMBER_OF_LIGHTS and
\* the two call sites interleaved in any order, the position stays in
\* [0, NUMBER_OF_LIGHTS - cometSize] and comet writes inside the buffer.
C17_CometStaysInside ==
    /\ iPos >= 0
    /\ iPos <= NUMBER_OF_LIGHTS - cometSize
    /\ ~oobWrite

\* C18: once BLE.begin() has succeeded and setup() is over, whenever no
\* central is connected the in-memory configuration holds the values of the
\* five characteristics; so on every pass of loop() that runs effects the
\* interval the elapsed time is compared with is the live
\* secondsBetweenEffects characteristic.
C18_CopyMatchesAttributes ==
    /\ []((pc = "loop" /\ bleOk /\ ~connected) =>
            /\ g_configData.run = g_runLights
            /\ g_configData.nbrOfLeds = g_numberOfLights
            /\ g_configData.candyStripWidth = g_candyStripWidth
            /\ g_configData.trainCarLength = g_trainCarLength
            /\ g_configData.secondsBetweenEffects = g_secondsBetweenEffects)
    /\ [][RunningPass =>
            g_configData.secondsBetweenEffects = g_secondsBetweenEffects]_vars

\* a central has written a new interval and gone, and effects have run and
\* switched since with that interval
C18_Witness ==
    /\ ~connected
    /\ sessions = 1
    /\ flashWrites = 1
    /\ g_secondsBetweenEffects = 0
    /\ g_configData.secondsBetweenEffects = 0
    /\ myConfigData.secondsBetweenEffects = 0
    /\ ran = "effects"
    /\ transitions > 0

\* C19: a pass of loop() while a central is connected calls no effect and
\* leaves the pixel buffer, the effect statics, the effect index and the
\* time of the last switch as they were, whatever the run flag; the first
\* running pass after the connection makes at most one switch, and exactly
\* one, with the timer set to the time of that pass, when the interval has
\* elapsed (however many times over).
C19_FrozenWhileConnected ==
    /\ [][(LoopPass /\ connected) =>
            /\ ran' = "connected"
            /\ UNCHANGED <<leds, Statics, Selector>>]_vars
    /\ [][(RunningPass /\ ran = "connected") =>
            /\ transitions' \in {transitions, transitions + 1}
            /\ UGreaterEq(now' - lastEffectStartTime,
                          g_configData.secondsBetweenEffects * MsPerSecond) =>
                 /\ transitions' = transitions + 1
                 /\ currentEffect' = (currentEffect + 1) % maxEffects
                 /\ lastEffectStartTime' = now']_vars

\* a connection has lasted two intervals of one second (passes went by while
\* it lasted) and the first running pass after it has switched once
C19_Witness ==
    /\ ~connected
    /\ sessions = 1
    /\ ran = "effects"
    /\ g_configData.secondsBetweenEffects = 1
    /\ transitions = 1
    /\ currentEffect = 1
    /\ lastEffectStartTime = now
    /\ now >= SetupDelayMs + 2 * MsPerSecond
    /\ iPos = 1

====
